---- MODULE Spec2Model ----
(***************************************************************************)
(* Model of pooler/pool.py: a pool of items kept in one Redis ZSET whose   *)
(* scores are the unix time at which each item can next be chosen.         *)
(*                                                                         *)
(* Time is a global integer clock.  A caller reads the clock (time.time())  *)
(* before it talks to Redis, so its reading can be older than the time at  *)
(* which its command or script executes.  Each Redis command and each Lua  *)
(* script is one atomic step.                                              *)
(*                                                                         *)
(* serialize/deserialize are modelled by their bodies, "return item" and   *)
(* "return element".  They are declared without self (lines 214, 220), so  *)
(* on a plain Pool instance the calls self.serialize(item) raise TypeError *)
(* before any Redis command; the model is of a Pool whose canonicalisation *)
(* step is the identity the bodies state.                                  *)
(***************************************************************************)
EXTENDS Integers, Sequences, FiniteSets, TLC

\* ---------------------------------------------------------------- bounds
NumItems == 2
MaxTime == 2
MaxLockTimeout == 2
MaxLen == 2
MaxBatch == 2
NumCallers == 2

StartTime == 1

Items == 1 .. NumItems            \* canonical forms; numeric order stands for
                                  \* the ZSET's lexicographic tie-break
Callers == 1 .. NumCallers        \* the concurrent callers
Further == NumCallers + 1         \* one more caller, for a later choose()
Clients == Callers \cup {Further}
Resetters == {"r1"}
Second == "r2"
BothResetters == Resetters \cup {Second}

\* Lua / Python values, tagged so that values of different types compare unequal
Nil == <<"nil">>                  \* Lua nil / Python None
LuaFalse == <<"false">>           \* Lua false (Redis nil bulk reply inside a script)
Elem(x) == <<"elem", x>>          \* a member of a ZSET
Num(n) == <<"num", n>>            \* an integer or a score
Bool(b) == <<"bool", b>>
Raise(e) == <<"raise", e>>        \* the call raised e
NotCalled == <<"not-called">>
NoItemAvailableError == Raise("NoItemAvailableError")
ResponseError == Raise("ResponseError")
ConnectionError == Raise("ConnectionError")
MinusInf == "-inf"

VARIABLES
    clock,          \* wall clock, time.time()
    lock_timeout,   \* Pool.lock_timeout
    pool,           \* the ZSET under pool_key: member -> score (empty = no key)
    pc,             \* per client: position inside choose()
    now,            \* per client: the clock reading of the running choose()
    ret,            \* per client: what its last finished choose() returned or raised
    mret,           \* what the last finished replace/add/remove call returned
    grant,          \* history: per item, the last lease <<read at, returned at>>
    seen,           \* history: per client, leases that existed when choose() was issued
    defer,          \* history, per item: the lock_till of the replace() that set its
                    \* score, while nobody has touched the item since (else Nil)
    rpc,            \* per reset call: position inside reset()
    ritems,         \* per reset call: the items argument
    ridx,           \* per reset call: how many items the for loop has consumed
    rbatch,         \* per reset call: batch_elements
    rbsize,         \* per reset call: redis_batch_size
    rpreserve,      \* per reset call: preserve_scores
    rcount,         \* per reset call: item_count
    rret,           \* per reset call: what the last finished reset returned or raised
    temp,           \* per reset call: the ZSET under temp_pool_key
    inter           \* per reset call: the ZSET under intersect_key

cvars == <<pc, now, ret, mret>>
hvars == <<grant, seen, defer>>
rvars == <<rpc, ritems, ridx, rbatch, rbsize, rpreserve, rcount, rret, temp, inter>>
vars == <<clock, lock_timeout, pool, pc, now, ret, mret, grant, seen, defer,
          rpc, ritems, ridx, rbatch, rbsize, rpreserve, rcount, rret, temp, inter>>

\* ------------------------------------------------------- Redis primitives
EmptyZSet == [x \in {} |-> 0]

Exists(z) == DOMAIN z # {}

\* mutant of ZAdd: ZADD XX, only a member's score is written
ZAdd_XX(z, score, element) ==
    [x \in DOMAIN z |-> IF x = element THEN score ELSE z[x]]

ZAdd(z, score, element) ==
    [x \in DOMAIN z \cup {element} |-> IF x = element THEN score ELSE z[x]]

\* reply of ZADD: the number of members newly added
ZAddReply(z, element) == IF element \in DOMAIN z THEN 0 ELSE 1

\* ZADD key 0 e1 0 e2 ... for a batch
RECURSIVE ZAddAll(_, _, _)
ZAddAll(z, score, elements) ==
    IF elements = <<>> THEN z
    ELSE ZAddAll(ZAdd(z, score, Head(elements)), score, Tail(elements))

ZRem(z, element) == [x \in DOMAIN z \ {element} |-> z[x]]

\* mutant of ZRemReply: the reply does not depend on membership
ZRemReply_Always(z, element) == 1

ZRemReply(z, element) == IF element \in DOMAIN z THEN 1 ELSE 0

\* reply of ZSCORE as a Lua script sees it
ZScore(z, element) == IF element \in DOMAIN z THEN Num(z[element]) ELSE LuaFalse

\* mutants of ScoreInRange: no upper bound; a strict upper bound
ScoreInRange_NoMax(s, min, max) == min = MinusInf \/ s >= min
ScoreInRange_Strict(s, min, max) == (min = MinusInf \/ s >= min) /\ s < max

ScoreInRange(s, min, max) == (min = MinusInf \/ s >= min) /\ s <= max

\* mutant of ZRangeByScoreFirst: the last member of the range, not the first
ZRangeByScoreFirst_Last(z, min, max) ==
    LET inRange == {x \in DOMAIN z : ScoreInRange(z[x], min, max)}
    IN  IF inRange = {} THEN Nil
        ELSE Elem(CHOOSE x \in inRange :
                \A y \in inRange : z[x] > z[y] \/ (z[x] = z[y] /\ x >= y))

\* ZRANGEBYSCORE key min max LIMIT 0 1, then [1]: the member with the lowest
\* score in range, ties by member order; Nil when the range is empty
ZRangeByScoreFirst(z, min, max) ==
    LET inRange == {x \in DOMAIN z : ScoreInRange(z[x], min, max)}
    IN  IF inRange = {} THEN Nil
        ELSE Elem(CHOOSE x \in inRange :
                \A y \in inRange : z[x] < z[y] \/ (z[x] = z[y] /\ x <= y))

\* ZINTERSTORE / ZUNIONSTORE with the default weights 1 and AGGREGATE SUM
ZInterStore(z1, z2) ==
    [x \in DOMAIN z1 \cap DOMAIN z2 |-> z1[x] + z2[x]]

ZUnionStore(z1, z2) ==
    [x \in DOMAIN z1 \cup DOMAIN z2 |->
        (IF x \in DOMAIN z1 THEN z1[x] ELSE 0) + (IF x \in DOMAIN z2 THEN z2[x] ELSE 0)]

\* -------------------------------------------------------------- helpers
serialize(item) == item
deserialize(element) == element

\* mutant of _just_before_now: one second after the reading
_just_after_now(t) == t + 1

_just_before_now(t) == t - 1

NoGrant == <<>>

Range(s) == {s[i] : i \in 1 .. Len(s)}

SeqsUpTo(S, n) == UNION {[1 .. k -> S] : k \in 0 .. n}

\* all ZSETs over Items with scores in S
ZSets(S) == UNION {[D -> S] : D \in SUBSET Items}

\* ---------------------------------------------------------- Lua scripts
\* mutant of ZaddIfNewTakesReturn1: the test is "not current_score"
ZaddIfNewTakesReturn1_OnFalse(z, a1, a2) == ZScore(z, a1) = LuaFalse

\* zadd_if_new_script: KEYS[1] = pool_key, ARGV = [default_score, element]
ZaddIfNewTakesReturn1(z, a1, a2) == ZScore(z, a1) = Nil
ZaddIfNewPool(z, a1, a2) ==
    IF ZaddIfNewTakesReturn1(z, a1, a2) THEN z ELSE ZAdd(z, a1, a2)
ZaddIfNewReply(z, a1, a2) ==
    IF ZaddIfNewTakesReturn1(z, a1, a2) THEN 1 ELSE ZAddReply(z, a2)

\* zset_element_choose_and_alter_script: ARGV = [min, max, new_score]
ChooseScriptElement(z, min, max, new_score) == ZRangeByScoreFirst(z, min, max)
\* mutant of ChooseScriptPool: new_score is written in milliseconds
ChooseScriptPool_Millis(z, min, max, new_score) ==
    LET element == ChooseScriptElement(z, min, max, new_score)
    IN  IF element = Nil THEN z ELSE ZAdd(z, new_score * 1000, element[2])

\* mutant of ChooseScriptPool: the element is taken out of the set
ChooseScriptPool_Pop(z, min, max, new_score) ==
    LET element == ChooseScriptElement(z, min, max, new_score)
    IN  IF element = Nil THEN z ELSE ZRem(z, element[2])

\* mutant of ChooseScriptPool: the element is rewritten with max, not new_score
ChooseScriptPool_NoLock(z, min, max, new_score) ==
    LET element == ChooseScriptElement(z, min, max, new_score)
    IN  IF element = Nil THEN z ELSE ZAdd(z, max, element[2])

ChooseScriptPool(z, min, max, new_score) ==
    LET element == ChooseScriptElement(z, min, max, new_score)
    IN  IF element = Nil THEN z ELSE ZAdd(z, new_score, element[2])

\* ------------------------------------------------------------------ time
Tick ==
    /\ clock < MaxTime
    /\ clock' = clock + 1
    /\ UNCHANGED <<lock_timeout, pool, cvars, hvars, rvars>>

\* time goes on after MaxTime, up to the time at which the lease of a choose()
\* issued at MaxTime expires
Horizon == MaxTime + MaxLockTimeout

TickOn ==
    /\ clock < Horizon
    /\ clock' = clock + 1
    /\ UNCHANGED <<lock_timeout, pool, cvars, hvars, rvars>>

\* history bookkeeping: the leases on the items in S are over (the item was
\* chosen again, or replace/add/remove/reset touched it)
Forget(S) ==
    /\ grant' = [x \in Items |-> IF x \in S THEN NoGrant ELSE grant[x]]
    /\ seen' = [c \in Clients |-> seen[c] \ S]

\* history bookkeeping: the items in S are no longer as a replace() with
\* lock_till left them
Undefer(S) == defer' = [x \in Items |-> IF x \in S THEN Nil ELSE defer[x]]

\* ---------------------------------------------------------------- choose
\* choose(), lines 95-100: read the clock, compute the script's arguments
ChooseRead(c) ==
    /\ pc[c] = "idle"
    /\ pc' = [pc EXCEPT ![c] = "choose"]
    /\ now' = [now EXCEPT ![c] = clock]
    /\ ret' = [ret EXCEPT ![c] = NotCalled]
    /\ seen' = [seen EXCEPT ![c] = {x \in Items : grant[x] # NoGrant}]
    /\ UNCHANGED <<clock, lock_timeout, pool, mret, grant, defer, rvars>>

\* choose(), lines 102-110: run the script, raise or return the element
ChooseScript(c) ==
    /\ pc[c] = "choose"
    /\ LET lock_till == now[c] + lock_timeout
           min_score == MinusInf
           max_score == now[c]
           new_score == lock_till
           element == ChooseScriptElement(pool, min_score, max_score, new_score)
       IN  /\ pool' = ChooseScriptPool(pool, min_score, max_score, new_score)
           /\ IF element = Nil
              THEN /\ ret' = [ret EXCEPT ![c] = NoItemAvailableError]
                   /\ grant' = grant
                   /\ defer' = defer
                   /\ seen' = [seen EXCEPT ![c] = {}]
              ELSE /\ ret' = [ret EXCEPT ![c] = Elem(deserialize(element[2]))]
                   /\ grant' = [grant EXCEPT ![element[2]] = <<now[c], clock>>]
                   /\ Undefer({element[2]})
                   /\ seen' = [d \in Clients |->
                                 IF d = c THEN {} ELSE seen[d] \ {element[2]}]
    /\ pc' = [pc EXCEPT ![c] = "idle"]
    /\ now' = [now EXCEPT ![c] = 0]
    /\ UNCHANGED <<clock, lock_timeout, mret, rvars>>

\* --------------------------------------------------------------- replace
\* mutant of Replace: lock_till is ignored
Replace_IgnoresLockTill(item, lock_till, read_at) ==
    /\ LET new_score == _just_before_now(read_at)
           element == serialize(item)
       IN  /\ pool' = ZAdd(pool, new_score, element)
           /\ Forget({element})
           /\ defer' = [defer EXCEPT ![element] = lock_till]
    /\ mret' = Nil
    /\ UNCHANGED <<clock, lock_timeout, pc, now, ret, rvars>>

\* replace(), lines 121-123, by any caller; lock_till is Nil or Num(t).
\* read_at is the time at which line 121 read the clock: the ZADD of line 123
\* executes now, which can be later
Replace(item, lock_till, read_at) ==
    /\ LET new_score == IF lock_till = Nil THEN _just_before_now(read_at) ELSE lock_till[2]
           element == serialize(item)
       IN  /\ pool' = ZAdd(pool, new_score, element)
           /\ Forget({element})
           /\ defer' = [defer EXCEPT ![element] = lock_till]
    /\ mret' = Nil
    /\ UNCHANGED <<clock, lock_timeout, pc, now, ret, rvars>>

\* ------------------------------------------------------------------- add
\* add(), by any caller
Add(item) ==
    /\ LET default_score == 0
           element == serialize(item)
           result == ZaddIfNewReply(pool, default_score, element)
       IN  /\ pool' = ZaddIfNewPool(pool, default_score, element)
           /\ mret' = Bool(result # 0)
           /\ Forget({element})
           /\ Undefer({element})
    /\ UNCHANGED <<clock, lock_timeout, pc, now, ret, rvars>>

\* ---------------------------------------------------------------- remove
\* remove(), by any caller
Remove(item) ==
    /\ LET element == serialize(item)
           result == ZRemReply(pool, element)
       IN  /\ pool' = ZRem(pool, element)
           /\ mret' = Bool(result # 0)
           /\ Forget({element})
           /\ Undefer({element})
    /\ UNCHANGED <<clock, lock_timeout, pc, now, ret, rvars>>

\* ----------------------------------------------------------------- reset
\* reset(), line 171 and the locals of lines 188-189; uuid4 makes temp_pool_key
\* (and so intersect_key) a key nobody else uses and that does not exist yet
ResetBegin(r, items, redis_batch_size, preserve_scores) ==
    /\ rpc[r] = "idle"
    /\ rpc' = [rpc EXCEPT ![r] = "loop"]
    /\ ritems' = [ritems EXCEPT ![r] = items]
    /\ rbsize' = [rbsize EXCEPT ![r] = redis_batch_size]
    /\ rpreserve' = [rpreserve EXCEPT ![r] = preserve_scores]
    /\ ridx' = [ridx EXCEPT ![r] = 0]
    /\ rbatch' = [rbatch EXCEPT ![r] = <<>>]
    /\ rcount' = [rcount EXCEPT ![r] = 0]
    /\ rret' = [rret EXCEPT ![r] = NotCalled]
    /\ temp' = [temp EXCEPT ![r] = EmptyZSet]
    /\ inter' = [inter EXCEPT ![r] = EmptyZSet]
    /\ UNCHANGED <<clock, lock_timeout, pool, cvars, hvars>>

\* mutant of add_batch: only the first element of a batch is written
add_batch_First(z, elements) ==
    IF elements = <<>> THEN z ELSE ZAdd(z, 0, Head(elements))

\* add_batch, lines 175-185
add_batch(z, elements) ==
    IF elements = <<>> THEN z
    ELSE LET default_score == 0 IN ZAddAll(z, default_score, elements)

\* one iteration of the for loop, lines 190-195
ResetLoop(r) ==
    /\ rpc[r] = "loop"
    /\ ridx[r] < Len(ritems[r])
    /\ LET item == ritems[r][ridx[r] + 1]
           batch_elements == Append(rbatch[r], serialize(item))
       IN  /\ rcount' = [rcount EXCEPT ![r] = rcount[r] + 1]
           /\ IF Len(batch_elements) >= rbsize[r]
              THEN /\ temp' = [temp EXCEPT ![r] = add_batch(temp[r], batch_elements)]
                   /\ rbatch' = [rbatch EXCEPT ![r] = <<>>]
              ELSE /\ temp' = temp
                   /\ rbatch' = [rbatch EXCEPT ![r] = batch_elements]
    /\ ridx' = [ridx EXCEPT ![r] = ridx[r] + 1]
    /\ UNCHANGED <<clock, lock_timeout, pool, cvars, hvars,
                   rpc, ritems, rbsize, rpreserve, rret, inter>>

\* the add_batch after the loop, line 198
ResetLast(r) ==
    /\ rpc[r] = "loop"
    /\ ridx[r] = Len(ritems[r])
    /\ temp' = [temp EXCEPT ![r] = add_batch(temp[r], rbatch[r])]
    /\ rbatch' = [rbatch EXCEPT ![r] = <<>>]
    /\ rpc' = [rpc EXCEPT ![r] = "exists"]
    /\ UNCHANGED <<clock, lock_timeout, pool, cvars, hvars,
                   ritems, ridx, rbsize, rpreserve, rcount, rret, inter>>

\* the condition of line 202
ResetExists(r) ==
    /\ rpc[r] = "exists"
    /\ rpc' = [rpc EXCEPT ![r] =
                 IF rpreserve[r] /\ Exists(pool) THEN "zinterstore" ELSE "rename"]
    /\ UNCHANGED <<clock, lock_timeout, pool, cvars, hvars,
                   ritems, ridx, rbatch, rbsize, rpreserve, rcount, rret, temp, inter>>

\* mutant of ResetZinterstore: the destination is pool_key, not intersect_key
ResetZinterstore_IntoPool(r) ==
    /\ rpc[r] = "zinterstore"
    /\ pool' = ZInterStore(temp[r], pool)
    /\ rpc' = [rpc EXCEPT ![r] = "zunionstore"]
    /\ UNCHANGED <<clock, lock_timeout, cvars, hvars,
                   ritems, ridx, rbatch, rbsize, rpreserve, rcount, rret, temp, inter>>

\* line 204
ResetZinterstore(r) ==
    /\ rpc[r] = "zinterstore"
    /\ inter' = [inter EXCEPT ![r] = ZInterStore(temp[r], pool)]
    /\ rpc' = [rpc EXCEPT ![r] = "zunionstore"]
    /\ UNCHANGED <<clock, lock_timeout, pool, cvars, hvars,
                   ritems, ridx, rbatch, rbsize, rpreserve, rcount, rret, temp>>

\* mutant of ResetZunionstore: the union is taken with pool_key, not with
\* intersect_key
ResetZunionstore_WithPool(r) ==
    /\ rpc[r] = "zunionstore"
    /\ temp' = [temp EXCEPT ![r] = ZUnionStore(pool, temp[r])]
    /\ rpc' = [rpc EXCEPT ![r] = "delete"]
    /\ UNCHANGED <<clock, lock_timeout, pool, cvars, hvars,
                   ritems, ridx, rbatch, rbsize, rpreserve, rcount, rret, inter>>

\* line 205
ResetZunionstore(r) ==
    /\ rpc[r] = "zunionstore"
    /\ temp' = [temp EXCEPT ![r] = ZUnionStore(inter[r], temp[r])]
    /\ rpc' = [rpc EXCEPT ![r] = "delete"]
    /\ UNCHANGED <<clock, lock_timeout, pool, cvars, hvars,
                   ritems, ridx, rbatch, rbsize, rpreserve, rcount, rret, inter>>

\* mutant of ResetDelete: the key deleted is pool_key, not intersect_key
ResetDelete_PoolKey(r) ==
    /\ rpc[r] = "delete"
    /\ pool' = EmptyZSet
    /\ rpc' = [rpc EXCEPT ![r] = "rename"]
    /\ UNCHANGED <<clock, lock_timeout, cvars, hvars,
                   ritems, ridx, rbatch, rbsize, rpreserve, rcount, rret, temp, inter>>

\* line 206
ResetDelete(r) ==
    /\ rpc[r] = "delete"
    /\ inter' = [inter EXCEPT ![r] = EmptyZSet]
    /\ rpc' = [rpc EXCEPT ![r] = "rename"]
    /\ UNCHANGED <<clock, lock_timeout, pool, cvars, hvars,
                   ritems, ridx, rbatch, rbsize, rpreserve, rcount, rret, temp>>

\* RENAME src dst: an error reply when src does not exist, else dst becomes
\* what src was and src is gone
RenameFails(src) == ~Exists(src)

\* lines 209-211
ResetRename(r) ==
    /\ rpc[r] = "rename"
    /\ IF RenameFails(temp[r])
       THEN /\ rret' = [rret EXCEPT ![r] = ResponseError]
            /\ UNCHANGED <<pool, temp, hvars>>
       ELSE /\ pool' = temp[r]
            /\ temp' = [temp EXCEPT ![r] = EmptyZSet]
            /\ rret' = [rret EXCEPT ![r] = Num(rcount[r])]
            /\ Forget(Items)
            /\ Undefer(Items)
    /\ rpc' = [rpc EXCEPT ![r] = "idle"]
    /\ ridx' = [ridx EXCEPT ![r] = 0]            \* the locals are gone
    /\ rcount' = [rcount EXCEPT ![r] = 0]
    /\ rbsize' = [rbsize EXCEPT ![r] = 1]
    /\ UNCHANGED <<clock, lock_timeout, cvars, ritems, rbatch, rpreserve, inter>>

\* a command of reset() raises without having been executed: the zadd of
\* add_batch (line 182), exists (202), zinterstore (204), zunionstore (205),
\* delete (206) or rename (209). reset() catches nothing, so the call ends
\* there; what it wrote under temp_pool_key and intersect_key stays behind
ResetFail(r) ==
    /\ \/ /\ rpc[r] = "loop"
          /\ \/ ridx[r] < Len(ritems[r]) /\ Len(rbatch[r]) + 1 >= rbsize[r]
             \/ ridx[r] = Len(ritems[r]) /\ rbatch[r] # <<>>
       \/ rpc[r] \in {"exists", "zinterstore", "zunionstore", "delete", "rename"}
    /\ rret' = [rret EXCEPT ![r] = ConnectionError]
    /\ rpc' = [rpc EXCEPT ![r] = "idle"]
    /\ ridx' = [ridx EXCEPT ![r] = 0]            \* the locals are gone
    /\ rcount' = [rcount EXCEPT ![r] = 0]
    /\ rbsize' = [rbsize EXCEPT ![r] = 1]
    /\ rbatch' = [rbatch EXCEPT ![r] = <<>>]
    /\ UNCHANGED <<clock, lock_timeout, pool, cvars, hvars,
                   ritems, rpreserve, temp, inter>>

\* --------------------------------------------------------- specification
\* no call is running and none has returned yet
NothingRunning ==
    /\ pc = [c \in Clients |-> "idle"]
    /\ now = [c \in Clients |-> 0]
    /\ ret = [c \in Clients |-> NotCalled]
    /\ mret = NotCalled
    /\ grant = [x \in Items |-> NoGrant]
    /\ seen = [c \in Clients |-> {}]
    /\ defer = [x \in Items |-> Nil]
    /\ rpc = [r \in BothResetters |-> "idle"]
    /\ ritems = [r \in BothResetters |-> <<>>]
    /\ ridx = [r \in BothResetters |-> 0]
    /\ rbatch = [r \in BothResetters |-> <<>>]
    /\ rbsize = [r \in BothResetters |-> 1]
    /\ rpreserve = [r \in BothResetters |-> FALSE]
    /\ rcount = [r \in BothResetters |-> 0]
    /\ rret = [r \in BothResetters |-> NotCalled]
    /\ temp = [r \in BothResetters |-> EmptyZSet]
    /\ inter = [r \in BothResetters |-> EmptyZSet]

\* a Pool object of any lock_timeout, on a pool key that does not exist yet
Init ==
    /\ clock = StartTime
    /\ lock_timeout \in 0 .. MaxLockTimeout
    /\ pool = EmptyZSet
    /\ NothingRunning

LockTills == {Nil} \cup {Num(t) : t \in StartTime .. MaxTime}

\* choose() by caller c
ChooseStep(c) ==
    \/ ChooseRead(c)
    \/ ChooseScript(c)

\* replace(), add() and remove() by any caller
MemberStep ==
    \/ \E item \in Items, read_at \in StartTime .. clock : Replace(item, Nil, read_at)
    \/ \E item \in Items, lock_till \in LockTills \ {Nil} : Replace(item, lock_till, clock)
    \/ \E item \in Items : Add(item)
    \/ \E item \in Items : Remove(item)

ResetStep(r) ==
    \/ \E items \in SeqsUpTo(Items, MaxLen),
          redis_batch_size \in 1 .. MaxBatch, preserve_scores \in BOOLEAN :
          ResetBegin(r, items, redis_batch_size, preserve_scores)
    \/ ResetLoop(r)
    \/ ResetLast(r)
    \/ ResetExists(r)
    \/ ResetZinterstore(r)
    \/ ResetZunionstore(r)
    \/ ResetDelete(r)
    \/ ResetRename(r)

\* Spec: any number of choose/replace/add/remove calls by concurrent callers
Next ==
    \/ Tick
    \/ \E c \in Callers : ChooseStep(c)
    \/ MemberStep

Spec == Init /\ [][Next]_vars

\* SpecMember: any number of replace/add/remove calls beside one caller of
\* choose(), on a Pool object of any lock_timeout
NextMember ==
    \/ Tick
    \/ ChooseStep(Further)
    \/ MemberStep

SpecMember == Init /\ [][NextMember]_vars

\* SpecReset: reset() calls running beside one caller of choose() and any
\* number of replace/add/remove calls, on a Pool object of lock_timeout
\* MaxLockTimeout
InitReset ==
    /\ clock = StartTime
    /\ lock_timeout = MaxLockTimeout
    /\ pool = EmptyZSet
    /\ NothingRunning

NextReset ==
    \/ Tick
    \/ ChooseStep(Further)
    \/ MemberStep
    \/ \E r \in Resetters : ResetStep(r)

SpecReset == InitReset /\ [][NextReset]_vars

\* SpecChoose: a pool of NumCallers members that are all available, one
\* choose() by each of the NumCallers concurrent callers and nothing else; once
\* they have all returned, one further caller keeps calling choose()
InitChoose ==
    /\ clock = StartTime
    /\ lock_timeout \in 0 .. MaxLockTimeout
    /\ pool \in {z \in ZSets(0 .. StartTime) : Cardinality(DOMAIN z) = NumCallers}
    /\ NothingRunning

FirstChooseRead(c) == ret[c] = NotCalled /\ ChooseRead(c)

AllReturned == \A c \in Callers : pc[c] = "idle" /\ ret[c] # NotCalled

FurtherChooseRead == AllReturned /\ ChooseRead(Further)

NextChoose ==
    \/ Tick
    \/ \E c \in Callers : FirstChooseRead(c)
    \/ FurtherChooseRead
    \/ \E c \in Clients : ChooseScript(c)

SpecChoose == InitChoose /\ [][NextChoose]_vars

\* SpecResetAlone: reset() calls on an existing pool, nothing running beside them
InitResetAlone ==
    /\ clock = StartTime
    /\ lock_timeout = MaxLockTimeout
    /\ pool \in {z \in ZSets(0 .. MaxTime + MaxLockTimeout) : Exists(z)}
    /\ NothingRunning

NextResetAlone == \E r \in Resetters : ResetStep(r)

SpecResetAlone == InitResetAlone /\ [][NextResetAlone]_vars

\* SpecResetFail: reset() calls on an existing pool whose members are
\* available or leased; any command of a call can raise
InitResetFail ==
    /\ clock = StartTime
    /\ lock_timeout = MaxLockTimeout
    /\ pool \in {z \in ZSets({0, StartTime + MaxLockTimeout}) : Exists(z)}
    /\ NothingRunning

NextResetFail ==
    \E r \in Resetters :
        \/ ResetStep(r)
        \/ ResetFail(r)

SpecResetFail == InitResetFail /\ [][NextResetFail]_vars

\* SpecResetPair: two callers of reset() running their calls concurrently on
\* an existing pool, nothing else running
NextResetPair == \E r \in BothResetters : ResetStep(r)

SpecResetPair == InitResetFail /\ [][NextResetPair]_vars

\* SpecExpiry: one caller of choose() beside any number of replace/add/remove
\* calls, with choose() issued up to MaxTime and time going on until every
\* lease has run out; the clock never stops before Horizon
EarlyChooseRead(c) == clock <= MaxTime /\ ChooseRead(c)

NextExpiry ==
    \/ TickOn
    \/ EarlyChooseRead(Further)
    \/ ChooseScript(Further)
    \/ MemberStep

SpecExpiry == Init /\ [][NextExpiry]_vars /\ WF_vars(TickOn)

\* =================================================================== claims

\* a step in which caller c's choose() script ran and gave out an item
ChooseGives(c) == ChooseScript(c) /\ ret'[c] # NoItemAvailableError

\* C1: with lock_timeout > 0 and a pool of N available members, N concurrent
\* choose() calls each return an item, no two the same, and a further choose()
\* issued before any of those leases expires raises NoItemAvailableError
C1_MutualExclusion ==
    [][lock_timeout > 0 =>
        /\ \A c \in Callers :
              ChooseScript(c) =>
                  /\ ret'[c][1] = "elem"
                  /\ ret'[c][2] \in Items
                  /\ \A d \in Callers \ {c} : ret'[d] # ret'[c]
        /\ (/\ ChooseScript(Further)
            /\ \A x \in DOMAIN pool :
                  grant[x] # NoGrant /\ now[Further] < grant[x][1] + lock_timeout)
              => ret'[Further] = NoItemAvailableError]_vars

\* all N callers hold an item and the further caller was refused
C1_Witness ==
    /\ lock_timeout > 0
    /\ \A c \in Callers : pc[c] = "idle" /\ ret[c][1] = "elem"
    /\ {ret[c][2] : c \in Callers} = DOMAIN pool
    /\ Cardinality(DOMAIN pool) = NumCallers
    /\ ret[Further] = NoItemAvailableError

\* C2 as stated: once choose() has returned X under lock_timeout d > 0, a
\* choose() issued after that return and less than d after it never gives out X,
\* as long as no replace, remove, add or reset touched X
C2_NoRegrantWithinDOfReturn ==
    [][\A c \in Callers :
        (ChooseGives(c) /\ lock_timeout > 0 /\ ret'[c][2] \in seen[c])
            => now[c] >= grant[ret'[c][2]][2] + lock_timeout]_vars

\* C2 amended: once a choose() whose clock reading was t has given out X under
\* lock_timeout d > 0, no choose() whose clock reading is less than t + d gives
\* out X, as long as no replace, remove, add or reset touched X
C2_NoRegrantWithinDOfReading ==
    [][\A c \in Callers :
        (ChooseGives(c) /\ lock_timeout > 0 /\ grant[ret'[c][2]] # NoGrant)
            => now[c] >= grant[ret'[c][2]][1] + lock_timeout]_vars

\* one caller holds X, and another caller's choose() was refused within the lease
C2_Witness ==
    \E c1, c2 \in Callers, x \in Items :
        /\ c1 # c2 /\ lock_timeout > 0
        /\ ret[c1] = Elem(x) /\ ret[c2] = NoItemAvailableError
        /\ DOMAIN pool = {x}
        /\ grant[x] # NoGrant /\ clock < grant[x][1] + lock_timeout

\* a step in which reset call r executed its RENAME and returned its count
ResetCompletes(r) == ResetRename(r) /\ rret'[r][1] = "num"

\* C3: a reset(items, preserve_scores=True) running beside choose() calls never
\* forgets an in-flight lease: an item that is leased at the swap and is in the
\* old and in the new membership keeps the available_at its lease gave it
C3_ResetKeepsInFlightLeases ==
    [][\A r \in Resetters :
        (ResetCompletes(r) /\ rpreserve[r])
            => \A x \in DOMAIN pool \cap DOMAIN pool' :
                  (grant[x] # NoGrant /\ pool[x] > clock) => pool'[x] = pool[x]]_vars

\* C4: add(X) on an item that is already a member leaves its available_at unchanged
C4_AddKeepsAvailableAt ==
    [][\A item \in Items :
        (Add(item) /\ item \in DOMAIN pool) => pool'[item] = pool[item]]_vars

\* C5: a successful choose() returns a member whose available_at is <= the
\* caller's now and is the smallest available_at of all members, and sets that
\* member's available_at to now + lock_timeout
C5_ChooseTakesSmallestEligible ==
    [][\A c \in Callers :
        ChooseGives(c) =>
            LET x == ret'[c][2]
            IN  /\ ret'[c][1] = "elem"
                /\ x \in DOMAIN pool
                /\ pool[x] <= now[c]
                /\ \A y \in DOMAIN pool : pool[x] <= pool[y]
                /\ x \in DOMAIN pool'
                /\ pool'[x] = now[c] + lock_timeout]_vars

\* a caller holds x under a lease while another member is still available
C5_Witness ==
    \E c \in Callers, x, y \in DOMAIN pool :
        /\ x # y /\ lock_timeout > 0
        /\ ret[c] = Elem(x)
        /\ grant[x] # NoGrant /\ pool[x] = grant[x][1] + lock_timeout
        /\ pool[y] <= clock /\ pool[y] # 0

\* C6: choose() raises NoItemAvailableError exactly when no member has
\* available_at <= the caller's now, and a choose() that raises changes nothing
\* in the pool
C6_RaisesIffNothingEligible ==
    [][\A c \in Callers :
        ChooseScript(c) =>
            /\ (ret'[c] = NoItemAvailableError)
                   <=> (\A x \in DOMAIN pool : pool[x] > now[c])
            /\ (ret'[c] = NoItemAvailableError) => pool' = pool]_vars

\* choose() raised on a pool that has members, all of them locked
C6_Witness ==
    \E c \in Callers :
        /\ ret[c] = NoItemAvailableError
        /\ DOMAIN pool = Items
        /\ \A x \in Items : pool[x] > clock

\* C7: reset([]) succeeds, returns 0 and leaves the pool with no member
C7_ResetEmptyGivesEmptyPool ==
    [][\A r \in Resetters :
        (ResetRename(r) /\ ritems[r] = <<>>)
            => (rret'[r] = Num(0) /\ pool' = EmptyZSet)]_vars

\* C8: the integer reset(items) returns is the number of members of the new pool
C8_ResetReturnsMemberCount ==
    [][\A r \in Resetters :
        ResetCompletes(r) => rret'[r][2] = Cardinality(DOMAIN pool')]_vars

\* C9: at the instant a reset(items, preserve_scores=False) completes, the
\* pool's members are exactly the items of the call and every available_at is 0
C9_ResetInstallsExactlyItems ==
    [][\A r \in Resetters :
        (ResetCompletes(r) /\ ~rpreserve[r])
            => /\ DOMAIN pool' = Range(ritems[r])
               /\ \A x \in DOMAIN pool' : pool'[x] = 0]_vars

\* a reset without preservation has completed with fewer items than Items while
\* a caller was given x by choose(); x is a member again with available_at 0
C9_Witness ==
    \E r \in Resetters, c \in Clients, x \in Items :
        /\ rpc[r] = "idle" /\ rret[r][1] = "num" /\ ~rpreserve[r]
        /\ lock_timeout > 0
        /\ ret[c] = Elem(x)
        /\ DOMAIN pool = Range(ritems[r]) /\ DOMAIN pool = {x}
        /\ pool[x] = 0

\* C10: after a reset(items, preserve_scores=True) that ran alone on an
\* existing pool, the members are exactly the items of the call, an item that
\* was a member keeps its old available_at and a new item has available_at 0
C10_PreserveKeepsOldScores ==
    [][\A r \in Resetters :
        (ResetRename(r) /\ rpreserve[r])
            => pool' = [x \in Range(ritems[r]) |->
                          IF x \in DOMAIN pool THEN pool[x] ELSE 0]]_vars

\* the same for every call that has at least one item
PreserveKeepsOldScoresNonEmpty ==
    [][\A r \in Resetters :
        (ResetRename(r) /\ rpreserve[r] /\ ritems[r] # <<>>)
            => pool' = [x \in Range(ritems[r]) |->
                          IF x \in DOMAIN pool THEN pool[x] ELSE 0]]_vars

\* a step of reset call r
ResetMoves(r) == rpc'[r] # rpc[r] \/ ridx'[r] # ridx[r]

\* C11: no step of a reset in progress shows an observer of the pool key
\* anything but the old membership (the step leaves the pool as it is) or the
\* complete new membership; no step empties the pool or installs part of the items
C11_ResetShowsOldOrNew ==
    [][\A r \in Resetters :
        ResetMoves(r) =>
            \/ pool' = pool
            \/ /\ ResetRename(r)
               /\ DOMAIN pool' = Range(ritems[r])
               /\ Exists(pool')]_vars

\* a reset is between two batches: the temporary key holds part of the items
\* and the pool still has the members it had, which are not those of the call
C11_Witness ==
    \E r \in Resetters :
        /\ rpc[r] = "loop"
        /\ Exists(temp[r]) /\ DOMAIN temp[r] # Range(ritems[r])
        /\ Exists(pool) /\ DOMAIN pool # Range(ritems[r])
        /\ DOMAIN pool # DOMAIN temp[r]

\* replace(item) without lock_till, whatever the time of its clock reading
ReplaceNow(item) == \E read_at \in StartTime .. clock : Replace(item, Nil, read_at)

\* replace(item, lock_till = t)
ReplaceTill(item, t) == Replace(item, Num(t), clock)

\* any replace(item)
ReplaceAny(item) == ReplaceNow(item) \/ \E t \in StartTime .. MaxTime : ReplaceTill(item, t)

\* C12: after replace(X) without lock_till X is a member whose available_at is
\* not after the current time, whether X was leased, available or not a member
C12_ReplaceMakesAvailable ==
    [][\A item \in Items :
        ReplaceNow(item) =>
            /\ item \in DOMAIN pool'
            /\ pool'[item] <= clock']_vars

\* X was given to a caller, and a replace() without lock_till has since set
\* its available_at to just before the current time
C12_Witness ==
    \E c \in Clients, x \in Items :
        /\ ret[c] = Elem(x) /\ lock_timeout = MaxLockTimeout
        /\ mret = Nil /\ grant[x] = NoGrant /\ defer[x] = Nil
        /\ x \in DOMAIN pool /\ pool[x] = clock - 1

\* C13: replace never changes the set of members
C13_ReplaceKeepsMembers ==
    [][\A item \in Items : ReplaceAny(item) => DOMAIN pool' = DOMAIN pool]_vars

\* C13, amended: replace(X) removes no member and changes no other member's
\* available_at; the member set afterwards is the old one with X in it, so it
\* grows by X exactly when X was not a member
C13_ReplaceOnlyAdmits ==
    [][\A item \in Items :
        ReplaceAny(item) =>
            /\ DOMAIN pool' = DOMAIN pool \cup {item}
            /\ \A y \in DOMAIN pool \ {item} : pool'[y] = pool[y]]_vars

\* the only member of the pool is as a replace() with lock_till left it, and
\* no choose() has been called
C13_Witness ==
    /\ mret = Nil
    /\ Cardinality(DOMAIN pool) = 1
    /\ \A c \in Clients : ret[c] = NotCalled
    /\ \E x \in DOMAIN pool : defer[x] = Num(MaxTime) /\ pool[x] = MaxTime

\* C14: choose() never changes the member set, and a successful choose()
\* changes the available_at of the returned item only
C14_ChooseKeepsMembers ==
    [][\A c \in Clients :
        ChooseScript(c) =>
            /\ DOMAIN pool' = DOMAIN pool
            /\ \A y \in DOMAIN pool : ret'[c] # Elem(y) => pool'[y] = pool[y]
            /\ ret'[c] = NoItemAvailableError => pool' = pool]_vars

\* one member is out on a lease and the other members are as add() left them
C14_Witness ==
    /\ DOMAIN pool = Items
    /\ \E c \in Clients, x \in Items :
        /\ ret[c] = Elem(x) /\ grant[x] # NoGrant /\ pool[x] > clock
        /\ \A y \in Items \ {x} : pool[y] = 0

\* C15: add(X) of a non-member makes X a member with available_at 0 and
\* returns True, add(X) of a member returns False: the returned value says
\* whether X was inserted
C15_AddInsertsAndTells ==
    [][\A item \in Items :
        Add(item) =>
            /\ item \notin DOMAIN pool =>
                  item \in DOMAIN pool' /\ pool'[item] = 0 /\ mret' = Bool(TRUE)
            /\ item \in DOMAIN pool => mret' = Bool(FALSE)
            /\ mret' = Bool(DOMAIN pool' # DOMAIN pool)]_vars

\* add() of a member has returned False after add() of a non-member had
\* inserted it: every item is a member and the last call returned False
C15_Witness ==
    /\ mret = Bool(FALSE)
    /\ DOMAIN pool = Items
    /\ \A x \in Items : pool[x] = 0

\* C16: remove(X) returns True exactly when X was a member, X is not a member
\* afterwards, and no other member and no other available_at changes
C16_RemoveTakesOutAndTells ==
    [][\A item \in Items :
        Remove(item) =>
            /\ mret' = Bool(item \in DOMAIN pool)
            /\ item \notin DOMAIN pool'
            /\ DOMAIN pool' = DOMAIN pool \ {item}
            /\ \A y \in DOMAIN pool' : pool'[y] = pool[y]]_vars

\* X was removed while a caller held it under a lease that has not expired;
\* another member is still there
C16_Witness ==
    \E c \in Clients, x \in Items :
        /\ ret[c] = Elem(x) /\ x \notin DOMAIN pool
        /\ mret = Bool(TRUE) /\ Exists(pool)
        /\ lock_timeout = MaxLockTimeout /\ clock = StartTime

\* C17: replace(X, lock_till = T) makes X a member whose available_at is
\* exactly T, and while no replace, add, remove or reset has touched X since,
\* no choose() whose clock reading is earlier than T is given X
C17_ReplaceTillDefers ==
    [][/\ \A item \in Items, t \in StartTime .. MaxTime :
            ReplaceTill(item, t) => item \in DOMAIN pool' /\ pool'[item] = t
       /\ \A c \in Clients :
            ChooseGives(c) =>
                LET x == ret'[c][2]
                IN  defer[x] # Nil => now[c] >= defer[x][2]]_vars

\* the only member was deferred to a later time by replace(X, lock_till) and a
\* choose() issued before that time has raised NoItemAvailableError
C17_Witness ==
    \E c \in Clients, x \in Items :
        /\ DOMAIN pool = {x}
        /\ defer[x] = Num(MaxTime) /\ clock < MaxTime
        /\ ret[c] = NoItemAvailableError

C20_LastRenameWins ==
    [][\A r \in BothResetters :
        ResetCompletes(r) =>
            /\ DOMAIN pool' = Range(ritems[r])
            /\ \A o \in BothResetters \ {r} :
                 (rret[o][1] = "num" /\ rpc[o] = "idle"
                     /\ Range(ritems[o]) # Range(ritems[r]))
                 => DOMAIN pool' # Range(ritems[o])]_vars

\* both calls have finished, one for item 1 alone and one for all items, the
\* second of them with preserve_scores; the members are those of one call
C20_Witness ==
    /\ \A r \in BothResetters : rpc[r] = "idle" /\ rret[r][1] = "num"
    /\ Range(ritems["r1"]) = {1}
    /\ Range(ritems[Second]) = Items /\ rpreserve[Second]
    /\ DOMAIN pool = {1}

\* X is out on a lease that nobody has ended
Leased(x) == x \in DOMAIN pool /\ grant[x] # NoGrant /\ pool[x] > clock

\* X's available_at has been reached and a choose() issued now is given an item
Selectable(x) ==
    /\ x \in DOMAIN pool /\ pool[x] <= clock
    /\ ChooseScriptElement(pool, MinusInf, clock, clock + lock_timeout) # Nil

\* C19: no lease is permanent: with time going on, every leased item that is
\* not removed, replaced or added again reaches its available_at, and from
\* then a choose() does not raise NoItemAvailableError
C19_LeaseRunsOut ==
    \A x \in Items : Leased(x) ~> (grant[x] = NoGrant \/ Selectable(x))

\* the lease of the longest duration, taken at MaxTime, has run out with
\* nobody touching the item
C19_Witness ==
    \E x \in Items :
        /\ grant[x] = <<MaxTime, MaxTime>> /\ lock_timeout = MaxLockTimeout
        /\ pool[x] = Horizon /\ clock = Horizon
        /\ Selectable(x)

====
